---- MODULE Spec2Model ----
(***************************************************************************)
(* Model of the execution poller (N8nAPIClient.wait_for_execution and the  *)
(* identical N8nMCPClient.wait_for_execution) and of the result evaluator  *)
(* / notifier (strategy_agent.run_once, lines 107-133, and                 *)
(* strategy_agent_local.evaluate_and_notify) with the notify helpers, and  *)
(* of the agent run loop (strategy_agent.main / run_once and               *)
(* strategy_agent_local.main) with its signal handler, and of the          *)
(* workflow cache and the execute method of N8nIntegration.                *)
(*                                                                         *)
(* Time is counted in whole seconds since the poller's start_time.         *)
(* Scores, confidences and thresholds are modelled by small integers: only *)
(* their order and the falsiness of zero matter to the code.               *)
(***************************************************************************)
EXTENDS Integers, Sequences, FiniteSets, TLC

\* ------------------------------------------------------------------ bounds
MaxTimeout == 5
MaxPoll == 3
MaxRows == 3
MaxVal == 2
MaxInterval == 2
MaxInFlight == 2
MaxWorkflows == 2

VARIABLES
    \* --- poller (wait_for_execution) ---
    timeout,        \* argument timeout, seconds
    poll_interval,  \* argument poll_interval, seconds
    now,            \* time.time(), seconds
    wpc,            \* position in wait_for_execution
    execution,      \* local variable `execution` (last record fetched)
    result,         \* the value wait_for_execution returned
    queries,        \* number of get_execution calls issued so far
    anyFailed,      \* some get_execution call hit a transport/HTTP failure
    remoteStatus,   \* status of the execution at the remote service
    terminalAt,     \* time the remote status became terminal, -1 before
    sleepStart,     \* time the current time.sleep call began
    execution_id,   \* argument execution_id
    issued,         \* gateway requests sent since wait_for_execution began
    client,         \* the client object's own state (base URL, session)
    \* --- evaluator / notifier ---
    variant,          \* "agent": strategy_agent.run_once,
                      \* "local": strategy_agent_local.evaluate_and_notify
    threshold,        \* NOTIFY_SCORE_THRESHOLD
    idx,              \* number of rows of the data list iterated so far
    row,              \* loop variable: the row of the latest iteration
    slackOutcome,     \* notify_slack call of the latest iteration ("none": no call)
    emailOutcome,     \* notify_email call of the latest iteration ("none": no call)
    nSlackCalls,      \* notify_slack calls made so far
    nEmailCalls,      \* notify_email calls made so far
    nTriggered,       \* rows so far that passed the threshold test
    failedBefore,     \* a send failed in an iteration before the latest one
    slackConfigured,  \* NOTIFY_SLACK_WEBHOOK is set
    emailConfigured,  \* NOTIFY_EMAIL_TO is set
    epc,              \* position in the evaluation
    ret,              \* value returned to the caller after the evaluation
    \* --- agent run loop ---
    script,         \* "agent": strategy_agent.py, "local": strategy_agent_local.py
    STOP,           \* the module-level stop flag
    dry_run,        \* DRY_RUN is 'true'
    interval,       \* AGENT_INTERVAL, seconds
    slept,          \* local variable `slept` of the sleep loop
    apc,            \* position in main / run_once
    record,         \* the cycle's in-memory execution record
    curRemote,      \* remote state of the execution triggered last
    olderInFlight,  \* earlier executions still non-terminal at the remote service
    gatewayCalled,  \* some gateway (n8n API) request has been issued
    sinceSave,      \* -1: nothing written yet; 0: the wall clock still shows the
                    \* second of the last file written; 1: a later second
    overwrote,      \* a persist call wrote to the name of an earlier one
    sinceFake,      \* as sinceSave, for the last synthetic (dry-run) record
    fakeRel,        \* latest synthetic record against the previous cycle's:
                    \* "first", "same" or "differs"
    stopSetAt,      \* where the loop was when STOP first became true
    ticksAfterStop, \* time.sleep(1) calls that ended after STOP was set
    cTriggers,      \* this cycle: executions triggered
    cPolled,        \* this cycle: wait_for_execution returned
    cPersist,       \* this cycle: persist step "no", "ok" or "failed"
    cEvaluated,     \* this cycle: the evaluator/notifier ran
    cNotified,      \* this cycle: a notification was sent
    cFailed,        \* this cycle: some step failed
    cMatch,         \* this cycle: "match"/"noMatch" once the workflow list
                    \* was searched for the configured name, "none" before
    cHandle,        \* this cycle: the execution id handed to the poller:
                    \* "id", "missing" (None), or "none" before the poll
    \* --- N8nIntegration ---
    workflows_cache,  \* self.workflows_cache
    ipc,              \* "idle", or "ready" once the object is constructed
    lastOp,           \* the method called last
    refresh,          \* argument refresh of the last get_workflows call
    prevCache,        \* the cache as the last get_workflows call found it
    lastListCalls,    \* gateway list requests made by that call
    lastFetch,        \* its list request: "none", "ok" or "failed"
    wfReturn,         \* the list it returned
    found,            \* what the last find_workflow returned
    execCase,         \* what the last execute call met
    execIssued,       \* gateway requests of the last execute call
    execReturn        \* what the last execute call returned

pollerVars == <<timeout, poll_interval, now, wpc, execution, result, queries,
                anyFailed, remoteStatus, terminalAt, sleepStart,
                execution_id, issued, client>>

evalVars == <<variant, threshold, idx, row, slackOutcome, emailOutcome,
              nSlackCalls, nEmailCalls, nTriggered, failedBefore,
              slackConfigured, emailConfigured, epc, ret>>

agentVars == <<script, STOP, dry_run, interval, slept, apc, record,
               curRemote, olderInFlight, gatewayCalled, sinceSave, overwrote,
               sinceFake, fakeRel, stopSetAt, ticksAfterStop, cTriggers,
               cPolled, cPersist, cEvaluated, cNotified, cFailed, cMatch,
               cHandle>>

integVars == <<workflows_cache, ipc, lastOp, refresh, prevCache,
               lastListCalls, lastFetch, wfReturn, found, execCase,
               execIssued, execReturn>>

vars == <<pollerVars, evalVars, agentVars, integVars>>

\* ------------------------------------------------------------------ poller
NonTerminal == {"queued", "running"}

\* n8n_api_client.py:266  status in ['success', 'error', 'crashed']
TerminalStatuses == {"success", "error", "crashed"}

IsTerminal(status) == status \in TerminalStatuses

\* n8n_api_client.py:260  start_time = time.time(); the clock origin.
start_time == 0

\* The name `execution` before the first assignment in the loop body.
Unbound == [status |-> "unbound", q |-> 0]

\* get_execution: the record of the remote execution, or {} when the request
\* raised (the except branch returns {}, whose .get('status') is None).
\* q numbers the status query that produced the record.
GetExecution(ok, remote, q) ==
    IF ok THEN [status |-> remote, q |-> q]
          ELSE [status |-> "None", q |-> q]

ExecutionIds == {"e1", "e2"}

\* Mutant: the poller asks the gateway to stop the execution.
GetExecutionRequestStop(id) ==
    [method |-> "POST", endpoint |-> "/executions/stop", id |-> id]

\* n8n_api_client.py:238  self._make_request('GET', f'/executions/{id}')
GetExecutionRequest(id) ==
    [method |-> "GET", endpoint |-> "/executions", id |-> id]

\* n8n_api_client.py:52-66  what the constructor stores in the client.
NewClient == [base_url |-> "configured", session |-> "authorized"]

\* n8n_api_client.py:90-119  _make_request reads self.base_url,
\* self.session and self.config and assigns none of them.
ClientAfterRequest(c) == c

\* Mutant: the first iteration is skipped when only one second is left.
LoopCondOffByOne(t, start, tmo) == t - start < tmo - 1

\* n8n_api_client.py:262  while time.time() - start_time < timeout
LoopCond(t, start, tmo) == t - start < tmo

\* Mutant: the sleep lasts two poll intervals.
WakeTimeDouble(t, ivl) == t + 2 * ivl

\* n8n_api_client.py:271  time.sleep(poll_interval): the time the sleep ends.
WakeTime(t, ivl) == t + ivl

IdlePollerVars ==
    /\ timeout = 0
    /\ poll_interval = 1
    /\ now = start_time
    /\ wpc = "idle"
    /\ execution = Unbound
    /\ result = Unbound
    /\ queries = 0
    /\ anyFailed = FALSE
    /\ remoteStatus = "queued"
    /\ terminalAt = -1
    /\ sleepStart = start_time
    /\ execution_id = "e1"
    /\ issued = {}
    /\ client = NewClient

InitPollerVars ==
    /\ timeout \in 0..MaxTimeout
    /\ poll_interval \in 1..MaxPoll
    /\ now = start_time
    /\ wpc = "loop"
    /\ execution = Unbound
    /\ result = Unbound
    /\ queries = 0
    /\ anyFailed = FALSE
    /\ remoteStatus \in NonTerminal
    /\ terminalAt = -1
    /\ sleepStart = start_time
    /\ execution_id \in ExecutionIds
    /\ issued = {}
    /\ client = NewClient

\* One iteration of the while body up to the return or the sleep call:
\* the status query, the terminal test, then return or start sleeping.
Query ==
    /\ wpc = "loop"
    /\ LoopCond(now, start_time, timeout)
    /\ \E ok \in BOOLEAN :
         LET rec == GetExecution(ok, remoteStatus, queries + 1) IN
           /\ execution' = rec
           /\ queries' = queries + 1
           /\ anyFailed' = (anyFailed \/ ~ok)
           /\ IF IsTerminal(rec.status)
                THEN /\ wpc' = "returned"
                     /\ result' = rec
                ELSE /\ wpc' = "sleeping"
                     /\ result' = result
    /\ sleepStart' = now   \* read only while sleeping
    /\ issued' = issued \cup {GetExecutionRequest(execution_id)}
    /\ client' = ClientAfterRequest(client)
    /\ UNCHANGED <<timeout, poll_interval, now, remoteStatus, terminalAt,
                   execution_id>>
    /\ UNCHANGED evalVars
    /\ UNCHANGED agentVars
    /\ UNCHANGED integVars

\* time.sleep(poll_interval), one second at a time; the loop test follows it.
Tick ==
    /\ wpc = "sleeping"
    /\ now' = now + 1
    /\ wpc' = IF now' >= WakeTime(sleepStart, poll_interval)
                THEN "loop" ELSE "sleeping"
    /\ UNCHANGED <<timeout, poll_interval, execution, result, queries,
                   anyFailed, remoteStatus, terminalAt, sleepStart,
                   execution_id, issued, client>>
    /\ UNCHANGED evalVars
    /\ UNCHANGED agentVars
    /\ UNCHANGED integVars

\* The loop test fails: `return execution`, which raises UnboundLocalError
\* when the body never ran.
LoopExit ==
    /\ wpc = "loop"
    /\ ~LoopCond(now, start_time, timeout)
    /\ IF execution = Unbound
         THEN wpc' = "raised" /\ result' = result
         ELSE wpc' = "returned" /\ result' = execution
    /\ UNCHANGED <<timeout, poll_interval, now, execution, queries,
                   anyFailed, remoteStatus, terminalAt, sleepStart,
                   execution_id, issued, client>>
    /\ UNCHANGED evalVars
    /\ UNCHANGED agentVars
    /\ UNCHANGED integVars

\* The remote service moves the execution forward while the poller waits.
RemoteAdvance ==
    /\ wpc \in {"loop", "sleeping"}
    /\ remoteStatus \in NonTerminal
    /\ \E s \in (TerminalStatuses \cup {"running"}) \ {remoteStatus} :
         /\ remoteStatus' = s
         /\ terminalAt' = IF IsTerminal(s) THEN now ELSE terminalAt
    /\ UNCHANGED <<timeout, poll_interval, now, wpc, execution, result,
                   queries, anyFailed, sleepStart, execution_id, issued,
                   client>>
    /\ UNCHANGED evalVars
    /\ UNCHANGED agentVars
    /\ UNCHANGED integVars

\* ------------------------------------------------- evaluator and notifier
Fields == {"score", "confidence"}

Values == 0..MaxVal

Thresholds == (-1)..MaxVal

\* A result row: a dict in which each of the two keys may be absent.
RowSet == UNION {[S -> Values] : S \in SUBSET Fields}

\* Python values that may be None.
None == [isNone |-> TRUE, v |-> 0]

Some(x) == [isNone |-> FALSE, v |-> x]

\* dict.get(key): None when the key is absent.
DictGet(r, key) == IF key \in DOMAIN r THEN Some(r[key]) ELSE None

\* dict.get(key, default)
DictGetDefault(r, key, default) ==
    IF key \in DOMAIN r THEN r[key] ELSE default

\* Python truth value: None and 0 are falsy.
Truthy(x) == ~x.isNone /\ x.v # 0

\* Python `a or b`
PyOr(a, b) == IF Truthy(a) THEN a ELSE b

\* strategy_agent.py:116  score = row.get('score') or row.get('confidence')
AgentScore(r) == PyOr(DictGet(r, "score"), DictGet(r, "confidence"))

\* strategy_agent.py:118  score is not None and float(score) >= threshold
AgentTriggers(r, th) ==
    LET score == AgentScore(r) IN ~score.isNone /\ score.v >= th

\* strategy_agent_local.py:91-92  strategy.get('score', 0) >= threshold
LocalTriggers(r, th) == DictGetDefault(r, "score", 0) >= th

Triggers(v, r, th) ==
    IF v = "agent" THEN AgentTriggers(r, th) ELSE LocalTriggers(r, th)

\* Mutant: a failed webhook post is not caught inside notify_slack.
NotifySlackUncaught(configured, sendOK) ==
    IF ~configured THEN "unconfigured"
    ELSE IF sendOK THEN "sent" ELSE "raised"

\* notify_slack: "unconfigured" (no webhook: returns False without sending),
\* "sent" (returns True), "failed" (the post raised; caught, returns False).
NotifySlack(configured, sendOK) ==
    IF ~configured THEN "unconfigured"
    ELSE IF sendOK THEN "sent" ELSE "failed"

\* Mutant: notify_email parses SMTP_PORT before it looks for a recipient.
NotifyEmailPortFirst(configured, portOK, smtpHost, sendOK) ==
    IF ~portOK THEN "raised"
    ELSE IF ~configured THEN "unconfigured"
    ELSE IF ~smtpHost THEN "logged"
    ELSE IF sendOK THEN "sent" ELSE "failed"

\* notify_email: "unconfigured" (no recipient: returns False), "raised"
\* (int(SMTP_PORT) at line 44 is outside the try: a malformed port raises
\* ValueError to the caller), "logged" (no SMTP_HOST: the mail is only logged,
\* returns True), "sent" (returns True), "failed" (the SMTP exchange raised;
\* caught, returns False).
NotifyEmail(configured, portOK, smtpHost, sendOK) ==
    IF ~configured THEN "unconfigured"
    ELSE IF ~portOK THEN "raised"
    ELSE IF ~smtpHost THEN "logged"
    ELSE IF sendOK THEN "sent" ELSE "failed"

\* Mutant: run_once reports whether every alert was delivered.
RunOnceReturnDelivered(sendFailed) == IF sendFailed THEN "False" ELSE "True"

\* strategy_agent.py:133  return True, whether or not a send failed.
RunOnceReturn(sendFailed) == "True"

\* What a notify call gives its caller: notify.py:22,41 (False), 30,69
\* (True), 33,72 (False after a caught exception), 44 (ValueError).
NotifyReturn(outcome) ==
    CASE outcome \in {"sent", "logged"} -> "True"
      [] outcome = "raised" -> "raises"
      [] OTHER -> "False"

\* The call went to the network: notify.py:27 (requests.post), 60-65 (SMTP).
NetworkSend(outcome) == outcome \in {"sent", "failed"}

\* The send of a notify call failed (caught inside the helper or not).
SendFailed(outcome) == outcome \in {"failed", "raised"}

\* The loop variable before the first iteration.
NoRow == [k \in {} |-> 0]

IdleEvalVars ==
    /\ variant = "agent"
    /\ threshold = 0
    /\ idx = 0
    /\ row = NoRow
    /\ slackOutcome = "none"
    /\ emailOutcome = "none"
    /\ nSlackCalls = 0
    /\ nEmailCalls = 0
    /\ nTriggered = 0
    /\ failedBefore = FALSE
    /\ slackConfigured = FALSE
    /\ emailConfigured = FALSE
    /\ epc = "idle"
    /\ ret = "unset"

InitEvalVars ==
    /\ variant \in {"agent", "local"}
    /\ threshold \in Thresholds
    /\ idx = 0
    /\ row = NoRow
    /\ slackOutcome = "none"
    /\ emailOutcome = "none"
    /\ nSlackCalls = 0
    /\ nEmailCalls = 0
    /\ nTriggered = 0
    /\ failedBefore = FALSE
    /\ slackConfigured \in BOOLEAN
    /\ emailConfigured \in BOOLEAN
    /\ epc = "loop"
    /\ ret = "unset"

\* One iteration of the row loop, for any next row of the data list: the
\* threshold test and, when it passes, notify_slack then notify_email.  An
\* exception escaping notify_slack skips notify_email; an exception escaping
\* either call is caught by the try around the row (strategy_agent.py:128,
\* strategy_agent_local.py:105) and the loop goes on with the next row.
EvalRow ==
    /\ epc = "loop"
    /\ idx < MaxRows
    /\ \E r \in RowSet, sOK \in BOOLEAN, portOK \in BOOLEAN,
          smtpHost \in BOOLEAN, eOK \in BOOLEAN :
         LET trig == Triggers(variant, r, threshold)
             s == NotifySlack(slackConfigured, sOK)
             e == NotifyEmail(emailConfigured, portOK, smtpHost, eOK)
             emailCalled == trig /\ s # "raised"
         IN /\ row' = r
            /\ idx' = idx + 1
            /\ nTriggered' = IF trig THEN nTriggered + 1 ELSE nTriggered
            /\ slackOutcome' = IF trig THEN s ELSE "none"
            /\ nSlackCalls' = IF trig THEN nSlackCalls + 1 ELSE nSlackCalls
            /\ emailOutcome' = IF emailCalled THEN e ELSE "none"
            /\ nEmailCalls' =
                 IF emailCalled THEN nEmailCalls + 1 ELSE nEmailCalls
    /\ failedBefore' = (\/ failedBefore
                        \/ SendFailed(slackOutcome)
                        \/ SendFailed(emailOutcome))
    /\ UNCHANGED <<variant, threshold, slackConfigured, emailConfigured,
                   epc, ret>>
    /\ UNCHANGED pollerVars
    /\ UNCHANGED agentVars
    /\ UNCHANGED integVars

\* The data list is exhausted: run_once returns True, evaluate_and_notify
\* falls off its end (returns None).
EvalReturn ==
    /\ epc = "loop"
    /\ epc' = "done"
    /\ ret' = IF variant = "agent"
                THEN RunOnceReturn(\/ failedBefore
                                   \/ SendFailed(slackOutcome)
                                   \/ SendFailed(emailOutcome))
                ELSE "None"
    /\ UNCHANGED <<variant, threshold, idx, row, slackOutcome, emailOutcome,
                   nSlackCalls, nEmailCalls, nTriggered, failedBefore,
                   slackConfigured, emailConfigured>>
    /\ UNCHANGED pollerVars
    /\ UNCHANGED agentVars
    /\ UNCHANGED integVars

NextEval == EvalRow \/ EvalReturn

\* ----------------------------------------------------------- agent run loop
\* Mutant: a second signal switches the flag back.
HandleSignalValueToggle(stop) == ~stop

\* strategy_agent.py:45 / strategy_agent_local.py:30  STOP = True
HandleSignalValue(stop) == TRUE

\* Mutant: the loop condition is inverted.
OuterLoopCondInverted(stop) == stop

\* strategy_agent.py:156 / strategy_agent_local.py:121  while not STOP
OuterLoopCond(stop) == ~stop

\* Mutant: the sleep loop does not look at the stop flag.
InnerLoopCondNoStop(n, ivl, stop) == n < ivl

\* strategy_agent.py:164 / strategy_agent_local.py:148
\* while slept < interval and not STOP
InnerLoopCond(n, ivl, stop) == n < ivl /\ ~stop

\* Mutant: the loop body has no try/except around the cycle.
MainCatchesNothing(exc) == FALSE

\* strategy_agent.py:159 / strategy_agent_local.py:142  except Exception
MainCatches(exc) == TRUE

\* Mutant: the connection test is made in dry-run mode too.
SkipsConnectNever(dry) == FALSE

\* strategy_agent.py:144-151  the connection test is skipped when DRY_RUN
SkipsConnect(dry) == dry

\* Mutant: the evaluator runs before the result is persisted.
StepAfterNotifyFirst(sc, step) ==
    IF sc = "agent"
      THEN CASE step = "find" -> "trigger"
             [] step = "trigger" -> "poll"
             [] step = "poll" -> "evaluate"
             [] step = "evaluate" -> "persist"
             [] step = "persist" -> "bq"
             [] OTHER -> "end"
      ELSE CASE step = "evaluate" -> "persist"
             [] OTHER -> "end"

\* The step that follows a step of the cycle that went through.
\* strategy_agent.py run_once: execute_workflow (find the workflow, trigger,
\* wait: execute_trading_workflow.py:138-177), save_execution_result (84),
\* BigQuery load (91-105), evaluation (108-131).
\* strategy_agent_local.py main: save_result (134), evaluate_and_notify (138).
StepAfter(sc, step) ==
    IF sc = "agent"
      THEN CASE step = "find" -> "trigger"
             [] step = "trigger" -> "poll"
             [] step = "poll" -> "persist"
             [] step = "persist" -> "bq"
             [] step = "bq" -> "evaluate"
             [] OTHER -> "end"
      ELSE CASE step = "persist" -> "evaluate"
             [] OTHER -> "end"

\* First step of a cycle: strategy_agent.py:58/74-76 (the synthetic record
\* replaces execute_workflow in dry-run mode); strategy_agent_local.py:129-134
\* (generate_strategy_result, then save_result).
FirstStep(sc, dry) ==
    IF sc = "local" THEN "persist"
    ELSE IF dry THEN "persist" ELSE "find"

CycleSteps == {"begin", "find", "trigger", "poll", "persist", "bq",
               "evaluate"}

SleepSteps == {"sleepTest", "ticking"}

InCycle == apc \in CycleSteps

Sleeping == apc \in SleepSteps

\* Position reached by a cycle step: the next step, or the sleep loop
\* (slept = 0) when the cycle is over.
Goto(step) == IF step = "end" THEN "sleepTest" ELSE step

\* Wall-clock seconds since an event, saturated at 1; -1 while it never
\* happened.
Later(since) == IF since = -1 THEN -1 ELSE 1

NoRecord == [status |-> "none", data |-> "none"]

\* strategy_agent.py:62-72  fake_execution: status success and two fixed
\* rows; its id and timestamps are taken from the clock.
FakeExecution == [status |-> "success", data |-> "synthetic"]

\* strategy_agent_local.py:37-67  generate_strategy_result
LocalResult == [status |-> "generated", data |-> "synthetic"]

IdleAgentVars ==
    /\ script = "agent"
    /\ STOP = FALSE
    /\ dry_run = FALSE
    /\ interval = 0
    /\ slept = 0
    /\ apc = "idle"
    /\ record = NoRecord
    /\ curRemote = "none"
    /\ olderInFlight = 0
    /\ gatewayCalled = FALSE
    /\ sinceSave = -1
    /\ overwrote = FALSE
    /\ sinceFake = -1
    /\ fakeRel = "first"
    /\ stopSetAt = "none"
    /\ ticksAfterStop = 0
    /\ cTriggers = 0
    /\ cPolled = FALSE
    /\ cPersist = "no"
    /\ cEvaluated = FALSE
    /\ cNotified = FALSE
    /\ cFailed = FALSE
    /\ cMatch = "none"
    /\ cHandle = "none"

InitAgentVars ==
    /\ script \in {"agent", "local"}
    /\ STOP = FALSE                     \* strategy_agent.py:40
    /\ dry_run \in BOOLEAN
    /\ interval \in 0..MaxInterval
    /\ slept = 0
    /\ apc = "startup"
    /\ record = NoRecord
    /\ curRemote = "none"
    /\ olderInFlight = 0
    /\ gatewayCalled = FALSE
    /\ sinceSave = -1
    /\ overwrote = FALSE
    /\ sinceFake = -1
    /\ fakeRel = "first"
    /\ stopSetAt = "none"
    /\ ticksAfterStop = 0
    /\ cTriggers = 0
    /\ cPolled = FALSE
    /\ cPersist = "no"
    /\ cEvaluated = FALSE
    /\ cNotified = FALSE
    /\ cFailed = FALSE
    /\ cMatch = "none"
    /\ cHandle = "none"

cycleVars == <<cTriggers, cPolled, cPersist, cEvaluated, cNotified, cFailed,
               cMatch, cHandle>>

timerVars == <<sinceSave, sinceFake>>

stopVars == <<STOP, stopSetAt, ticksAfterStop>>

\* handle_signal: SIGINT or SIGTERM arrives while the process runs.
HandleSignal ==
    /\ apc \notin {"idle", "stopped", "aborted", "crashed"}
    /\ STOP' = HandleSignalValue(STOP)
    /\ stopSetAt' = IF stopSetAt = "none"
                      THEN (IF Sleeping THEN "sleeping"
                            ELSE IF InCycle THEN "running" ELSE "between")
                      ELSE stopSetAt
    /\ UNCHANGED <<script, dry_run, interval, slept, apc, record, curRemote,
                   olderInFlight, gatewayCalled, overwrote, fakeRel,
                   ticksAfterStop>>
    /\ UNCHANGED <<cycleVars, timerVars, pollerVars, evalVars, integVars>>

\* main up to the loop: strategy_agent.py:137-153 (the executor is built; the
\* connection test unless DRY_RUN; a failed test ends main);
\* strategy_agent_local.py:110-119 (no connection at all).
Startup ==
    /\ apc = "startup"
    /\ IF script = "local" \/ SkipsConnect(dry_run)
         THEN /\ apc' = "loopTest"
              /\ UNCHANGED gatewayCalled
         ELSE \E clientOK \in BOOLEAN, connected \in BOOLEAN :
                /\ gatewayCalled' = (gatewayCalled \/ clientOK)
                /\ apc' = IF clientOK /\ connected
                            THEN "loopTest" ELSE "aborted"
    /\ UNCHANGED <<script, dry_run, interval, slept, record, curRemote,
                   olderInFlight, overwrote, fakeRel>>
    /\ UNCHANGED <<stopVars, cycleVars, timerVars, pollerVars, evalVars, integVars>>

\* The test of the outer loop: a new cycle begins, or main returns.
LoopTest ==
    /\ apc = "loopTest"
    /\ IF OuterLoopCond(STOP)
         THEN /\ apc' = "begin"
              /\ record' = NoRecord
              /\ cTriggers' = 0
              /\ cPolled' = FALSE
              /\ cPersist' = "no"
              /\ cEvaluated' = FALSE
              /\ cNotified' = FALSE
              /\ cFailed' = FALSE
              /\ cMatch' = "none"
              /\ cHandle' = "none"
         ELSE /\ apc' = "stopped"
              /\ UNCHANGED <<record, cycleVars>>
    /\ UNCHANGED <<script, dry_run, interval, slept, curRemote,
                   olderInFlight, gatewayCalled, overwrote, fakeRel>>
    /\ UNCHANGED <<stopVars, timerVars, pollerVars, evalVars, integVars>>

\* The test of the sleep loop: one more time.sleep(1), or back to the outer
\* loop's test.
SleepTest ==
    /\ apc = "sleepTest"
    /\ apc' = IF InnerLoopCond(slept, interval, STOP)
                THEN "ticking" ELSE "loopTest"
    /\ UNCHANGED <<script, dry_run, interval, slept, record, curRemote,
                   olderInFlight, gatewayCalled, overwrote, fakeRel>>
    /\ UNCHANGED <<stopVars, cycleVars, timerVars, pollerVars, evalVars, integVars>>

\* time.sleep(1) returns (a handled signal does not cut it short) and
\* slept += 1.
TickEnd ==
    /\ apc = "ticking"
    /\ slept' = slept + 1
    /\ apc' = "sleepTest"
    /\ ticksAfterStop' = IF STOP /\ ticksAfterStop < 2
                           THEN ticksAfterStop + 1 ELSE ticksAfterStop
    /\ sinceSave' = Later(sinceSave)
    /\ sinceFake' = Later(sinceFake)
    /\ UNCHANGED <<script, dry_run, interval, record, curRemote,
                   olderInFlight, gatewayCalled, overwrote, fakeRel, STOP,
                   stopSetAt>>
    /\ UNCHANGED <<cycleVars, pollerVars, evalVars, integVars>>

\* The work of a cycle takes long enough for the wall clock to show a later
\* second.
TimePasses ==
    /\ InCycle
    /\ sinceSave' = Later(sinceSave)
    /\ sinceFake' = Later(sinceFake)
    /\ UNCHANGED <<script, dry_run, interval, slept, apc, record, curRemote,
                   olderInFlight, gatewayCalled, overwrote, fakeRel>>
    /\ UNCHANGED <<stopVars, cycleVars, pollerVars, evalVars, integVars>>

Workflows == 1..MaxWorkflows

\* strategy_agent.py:140  the configured workflow name or id.
WorkflowTarget == 1

\* No workflow: the value None of the local `workflow`.
NoWorkflow == 0

\* Mutant: the search falls back on some workflow of the list.
LookupFirst(wfs, target) ==
    IF target \in wfs THEN target
    ELSE IF wfs # {} THEN CHOOSE w \in wfs : TRUE ELSE NoWorkflow

\* execute_trading_workflow.py:139-144  the workflow of the list whose id or
\* name equals the target, None when there is none.
Lookup(wfs, target) == IF target \in wfs THEN target ELSE NoWorkflow

\* Mutant: only None counts as a missing execution.
NotExecutionOnlyNone(rec) == rec.status = "none"

\* strategy_agent.py:77  `not execution`: None and {} are both falsy.
NotExecution(rec) == rec.status \in {"none", "empty"}

\* strategy_agent.py:76-81  after execute_workflow: return False on a
\* missing execution, go on to the persist step otherwise.
AfterExecute(sc, rec) ==
    IF NotExecution(rec) THEN "sleepTest" ELSE Goto(StepAfter(sc, "poll"))

\* Where a cycle goes when an exception leaves run_once (strategy_agent.py)
\* or the try block (strategy_agent_local.py): to the sleep loop when main
\* catches it, out of the process otherwise.
AfterRaise(exc) == IF MainCatches(exc) THEN "sleepTest" ELSE "crashed"

\* strategy_agent.py:56-79 / strategy_agent_local.py:129: the cycle starts;
\* in dry-run mode and in the local script the record is made on the spot.
Begin ==
    /\ apc = "begin"
    /\ apc' = FirstStep(script, dry_run)
    /\ IF script = "local"
         THEN /\ record' = LocalResult
              /\ UNCHANGED <<sinceFake, fakeRel>>
         ELSE IF dry_run
           THEN /\ record' = FakeExecution
                /\ fakeRel' = IF sinceFake = -1 THEN "first"
                              ELSE IF sinceFake = 0 THEN "same"
                              ELSE "differs"
                /\ sinceFake' = 0
           ELSE UNCHANGED <<record, sinceFake, fakeRel>>
    /\ UNCHANGED <<script, dry_run, interval, slept, curRemote,
                   olderInFlight, gatewayCalled, overwrote, sinceSave>>
    /\ UNCHANGED <<stopVars, cycleVars, pollerVars, evalVars, integVars>>

\* execute_trading_workflow.py:133-148: list_workflows (a failed request
\* gives []), then the search; an entry that is no dict raises out of
\* execute_workflow and run_once; without a match execute_workflow returns
\* None.
FindWorkflow ==
    /\ apc = "find"
    /\ gatewayCalled' = TRUE
    /\ \E listOK \in BOOLEAN, wfs \in SUBSET Workflows, wellFormed \in BOOLEAN :
         LET listed == IF listOK THEN wfs ELSE {}
             workflow == Lookup(listed, WorkflowTarget)
         IN /\ ~listOK => (wfs = {} /\ wellFormed)
            /\ cMatch' = IF ~wellFormed THEN "none"
                         ELSE IF WorkflowTarget \in listed THEN "match"
                         ELSE "noMatch"
            /\ apc' = IF ~wellFormed THEN AfterRaise("AttributeError")
                      ELSE IF workflow = NoWorkflow
                        THEN AfterExecute(script, NoRecord)
                        ELSE Goto(StepAfter(script, "find"))
            /\ cFailed' = (~wellFormed \/ workflow = NoWorkflow)
    /\ slept' = 0
    /\ UNCHANGED <<script, dry_run, interval, record, curRemote,
                   olderInFlight, overwrote, fakeRel>>
    /\ UNCHANGED <<cTriggers, cPolled, cPersist, cEvaluated, cNotified,
                   cHandle>>
    /\ UNCHANGED <<stopVars, timerVars, pollerVars, evalVars, integVars>>

\* execute_trading_workflow.py:166-169 and 180-182: the trigger request; an
\* exception is caught and execute_workflow returns None; the response's
\* 'id' (None when the key is absent) goes to wait_for_execution unchecked.
Trigger ==
    /\ apc = "trigger"
    /\ gatewayCalled' = TRUE
    /\ \E outcome \in {"id", "noId", "failed"} :
         IF outcome # "failed"
           THEN /\ apc' = Goto(StepAfter(script, "trigger"))
                /\ cTriggers' = IF cTriggers < 2 THEN cTriggers + 1 ELSE 2
                /\ cHandle' = IF outcome = "id" THEN "id" ELSE "missing"
                /\ curRemote' = "running"
                /\ olderInFlight' =
                     IF curRemote = "running" /\ olderInFlight < MaxInFlight
                       THEN olderInFlight + 1 ELSE olderInFlight
                /\ UNCHANGED cFailed
           ELSE /\ apc' = AfterExecute(script, NoRecord)
                /\ cFailed' = TRUE
                /\ UNCHANGED <<cTriggers, cHandle, curRemote, olderInFlight>>
    /\ slept' = 0
    /\ UNCHANGED <<script, dry_run, interval, record, overwrote, fakeRel>>
    /\ UNCHANGED <<cPolled, cPersist, cEvaluated, cNotified, cMatch>>
    /\ UNCHANGED <<stopVars, timerVars, pollerVars, evalVars, integVars>>

\* execute_trading_workflow.py:174-177 with n8n_api_client.py:262-274:
\* wait_for_execution(execution_id, timeout=300) returns a terminal record,
\* the last non-terminal record after the soft timeout, or {} when the last
\* query failed (as every query for the id None does); run_once returns
\* False on {} (strategy_agent.py:77-79).  What rows a record carries is up
\* to the remote service.
PollReturn ==
    /\ apc = "poll"
    /\ gatewayCalled' = TRUE
    /\ cPolled' = TRUE
    /\ \/ \E st \in TerminalStatuses, d \in {"none", "rows"} :
            /\ cHandle = "id"
            /\ curRemote \in {"running", st}
            /\ curRemote' = st
            /\ record' = [status |-> st, data |-> d]
            /\ UNCHANGED <<cFailed, timerVars>>
       \/ \E d \in {"none", "rows"} :
            /\ cHandle = "id"
            /\ curRemote = "running"
            /\ record' = [status |-> "running", data |-> d]
            /\ sinceSave' = Later(sinceSave)
            /\ sinceFake' = Later(sinceFake)
            /\ UNCHANGED <<cFailed, curRemote>>
       \/ /\ record' = [status |-> "empty", data |-> "none"]
          /\ cFailed' = TRUE
          /\ sinceSave' = Later(sinceSave)
          /\ sinceFake' = Later(sinceFake)
          /\ UNCHANGED curRemote
    /\ apc' = AfterExecute(script, record')
    /\ slept' = 0
    /\ UNCHANGED <<script, dry_run, interval, olderInFlight, overwrote,
                   fakeRel>>
    /\ UNCHANGED <<cTriggers, cPersist, cEvaluated, cNotified, cMatch,
                   cHandle>>
    /\ UNCHANGED <<stopVars, pollerVars, evalVars, integVars>>

\* The execution triggered last reaches a terminal status at the remote
\* service.
RemoteFinish ==
    /\ curRemote = "running"
    /\ apc \notin {"idle", "poll"}
    /\ \E st \in TerminalStatuses : curRemote' = st
    /\ UNCHANGED <<script, dry_run, interval, slept, apc, record,
                   olderInFlight, gatewayCalled, overwrote, fakeRel>>
    /\ UNCHANGED <<stopVars, cycleVars, timerVars, pollerVars, evalVars, integVars>>

\* An execution of an earlier cycle reaches a terminal status.  The count
\* saturates at MaxInFlight, which stands for "MaxInFlight or more".
RemoteFinishOlder ==
    /\ olderInFlight > 0
    /\ olderInFlight' \in IF olderInFlight = MaxInFlight
                            THEN {MaxInFlight - 1, MaxInFlight}
                            ELSE {olderInFlight - 1}
    /\ UNCHANGED <<script, dry_run, interval, slept, apc, record, curRemote,
                   gatewayCalled, overwrote, fakeRel>>
    /\ UNCHANGED <<stopVars, cycleVars, timerVars, pollerVars, evalVars, integVars>>

\* strategy_agent.py:82-88 with execute_trading_workflow.py:199-227: the file
\* is named after the current second and opened with 'w'; a failed write is
\* logged and gives None.  strategy_agent_local.py:70-83: the same name and
\* mode, and a failed write raises out of save_result.
Persist ==
    /\ apc = "persist"
    /\ \E ok \in BOOLEAN :
         /\ cPersist' = IF ok THEN "ok" ELSE "failed"
         /\ cFailed' = (cFailed \/ ~ok)
         /\ overwrote' = (overwrote \/ (ok /\ sinceSave = 0))
         /\ sinceSave' = IF ok THEN 0 ELSE sinceSave
         /\ apc' = IF ok \/ script = "agent"
                     THEN Goto(StepAfter(script, "persist"))
                     ELSE AfterRaise("OSError")
    /\ slept' = 0
    /\ UNCHANGED <<script, dry_run, interval, record, curRemote,
                   olderInFlight, gatewayCalled, fakeRel, sinceFake>>
    /\ UNCHANGED <<cTriggers, cPolled, cEvaluated, cNotified, cMatch,
                   cHandle>>
    /\ UNCHANGED <<stopVars, pollerVars, evalVars, integVars>>

\* strategy_agent.py:91-105: the optional BigQuery load, inside its own
\* try/except.
BqLoad ==
    /\ apc = "bq"
    /\ \E outcome \in {"skipped", "loaded", "failed"} :
         cFailed' = (cFailed \/ outcome = "failed")
    /\ apc' = Goto(StepAfter(script, "bq"))
    /\ slept' = 0
    /\ UNCHANGED <<script, dry_run, interval, record, curRemote,
                   olderInFlight, gatewayCalled, overwrote, fakeRel>>
    /\ UNCHANGED <<cTriggers, cPolled, cPersist, cEvaluated, cNotified,
                   cMatch, cHandle>>
    /\ UNCHANGED <<stopVars, timerVars, pollerVars, evalVars, integVars>>

\* strategy_agent.py:108-133: the evaluation, every exception caught inside
\* run_once; the rows come from get_execution_data(execution), whatever the
\* record's status.  strategy_agent_local.py:138 with 86-106: evaluate_and_notify;
\* what it raises outside its inner try (the threshold's float()) leaves the
\* try block of main.
Evaluate ==
    /\ apc = "evaluate"
    /\ cEvaluated' = TRUE
    /\ \E outcome \in {"quiet", "notified", "failed", "raised"} :
         /\ outcome = "raised" => script = "local"
         /\ outcome = "notified" => record.data # "none"
         /\ cNotified' = (outcome = "notified")
         /\ cFailed' = (cFailed \/ outcome \in {"failed", "raised"})
         /\ apc' = IF outcome = "raised"
                     THEN AfterRaise("ValueError")
                     ELSE Goto(StepAfter(script, "evaluate"))
    /\ slept' = 0
    /\ UNCHANGED <<script, dry_run, interval, record, curRemote,
                   olderInFlight, gatewayCalled, overwrote, fakeRel>>
    /\ UNCHANGED <<cTriggers, cPolled, cPersist, cMatch, cHandle>>
    /\ UNCHANGED <<stopVars, timerVars, pollerVars, evalVars, integVars>>

AgentStep ==
    \/ Startup
    \/ LoopTest
    \/ Begin
    \/ FindWorkflow
    \/ Trigger
    \/ PollReturn
    \/ Persist
    \/ BqLoad
    \/ Evaluate
    \/ SleepTest
    \/ TickEnd

NextAgent ==
    \/ AgentStep
    \/ HandleSignal
    \/ TimePasses
    \/ RemoteFinish
    \/ RemoteFinishOlder

\* ---------------------------------------------------------- N8nIntegration
\* n8n_integration.py:41  self.workflows_cache = None
NoCache == [set |-> FALSE, wfs |-> {}]

\* A list stored in the cache.
Cached(wfs) == [set |-> TRUE, wfs |-> wfs]

\* n8n_api_client.py:171-183  list_workflows: the list of the response, or
\* [] when the request raised.
ListWorkflows(ok, remote) == IF ok THEN remote ELSE {}

\* Mutant: a cached list is served whatever the refresh flag says.
UseCacheIgnoringRefresh(cache, r) == cache.set /\ cache.wfs # {}

\* n8n_integration.py:72  if self.workflows_cache and not refresh
UseCache(cache, r) == cache.set /\ cache.wfs # {} /\ ~r

\* n8n_integration.py:96-114  find_workflow: the workflow matched by id, by
\* name or by part of its name, None without a match.
FindWorkflowMatch(wfs, target) ==
    IF target \in wfs THEN target ELSE NoWorkflow

\* n8n_api_client.py:243-248  the parameters of wait_for_execution.
WaitParameters == {"execution_id", "timeout", "poll_interval"}

\* n8n_integration.py:151-155  the keywords execute passes to it.
ExecuteWaitKeywords == {"max_wait_seconds", "poll_interval"}

\* A Python call binds only when every keyword names a parameter; it raises
\* TypeError otherwise.
CallBinds(keywords, parameters) == keywords \subseteq parameters

NoCase == [triggerOK |-> FALSE, hasId |-> FALSE, wait |-> FALSE,
           queriesOK |-> FALSE]

IdleIntegVars ==
    /\ workflows_cache = NoCache
    /\ ipc = "idle"
    /\ lastOp = "none"
    /\ refresh = FALSE
    /\ prevCache = NoCache
    /\ lastListCalls = 0
    /\ lastFetch = "none"
    /\ wfReturn = {}
    /\ found = NoWorkflow
    /\ execCase = NoCase
    /\ execIssued = {}
    /\ execReturn = "unset"

InitIntegVars ==
    /\ workflows_cache = NoCache       \* n8n_integration.py:41
    /\ ipc = "ready"
    /\ lastOp = "none"
    /\ refresh = FALSE
    /\ prevCache = NoCache
    /\ lastListCalls = 0
    /\ lastFetch = "none"
    /\ wfReturn = {}
    /\ found = NoWorkflow
    /\ execCase = NoCase
    /\ execIssued = {}
    /\ execReturn = "unset"

\* The body of get_workflows(r), the gateway answering the list request, if
\* one is made, with `remote` or with a failure.
GetWorkflowsBody(r, ok, remote) ==
    /\ refresh' = r
    /\ prevCache' = workflows_cache
    /\ IF UseCache(workflows_cache, r)
         THEN /\ wfReturn' = workflows_cache.wfs
              /\ lastListCalls' = 0
              /\ lastFetch' = "none"
              /\ UNCHANGED workflows_cache
         ELSE LET workflows == ListWorkflows(ok, remote) IN
              /\ workflows_cache' = Cached(workflows)
              /\ wfReturn' = workflows
              /\ lastListCalls' = 1
              /\ lastFetch' = IF ok THEN "ok" ELSE "failed"

\* get_workflows(refresh)
GetWorkflows ==
    /\ ipc = "ready"
    /\ \E r \in BOOLEAN, ok \in BOOLEAN, remote \in SUBSET Workflows :
         GetWorkflowsBody(r, ok, remote)
    /\ lastOp' = "get_workflows"
    /\ UNCHANGED <<ipc, found, execCase, execIssued, execReturn>>
    /\ UNCHANGED <<pollerVars, evalVars, agentVars>>

\* find_workflow(name_or_id): get_workflows() and the search.
FindWorkflowByName ==
    /\ ipc = "ready"
    /\ \E ok \in BOOLEAN, remote \in SUBSET Workflows :
         GetWorkflowsBody(FALSE, ok, remote)
    /\ found' = FindWorkflowMatch(wfReturn', WorkflowTarget)
    /\ lastOp' = "find_workflow"
    /\ UNCHANGED <<ipc, execCase, execIssued, execReturn>>
    /\ UNCHANGED <<pollerVars, evalVars, agentVars>>

\* execute(workflow_id, wait=...): the trigger request, the test of the
\* response's id, the call of wait_for_execution; every exception ends in
\* `return None`.
Execute ==
    /\ ipc = "ready"
    /\ \E triggerOK \in BOOLEAN, hasId \in BOOLEAN, wait \in BOOLEAN,
          queriesOK \in BOOLEAN :
         /\ execCase' = [triggerOK |-> triggerOK, hasId |-> hasId,
                         wait |-> wait, queriesOK |-> queriesOK]
         /\ IF ~triggerOK
              THEN /\ execReturn' = "None"
                   /\ execIssued' = {"trigger"}
              ELSE IF ~hasId
                THEN /\ execReturn' = "None"
                     /\ execIssued' = {"trigger"}
                ELSE IF ~wait
                  THEN /\ execReturn' = "response"
                       /\ execIssued' = {"trigger"}
                  ELSE IF ~CallBinds(ExecuteWaitKeywords, WaitParameters)
                    THEN /\ execReturn' = "None"
                         /\ execIssued' = {"trigger"}
                    ELSE /\ execReturn' = IF queriesOK THEN "record"
                                          ELSE "empty"
                         /\ execIssued' = {"trigger", "status"}
    /\ lastOp' = "execute"
    /\ UNCHANGED <<workflows_cache, ipc, refresh, prevCache, lastListCalls,
                   lastFetch, wfReturn, found>>
    /\ UNCHANGED <<pollerVars, evalVars, agentVars>>

NextInteg == GetWorkflows \/ FindWorkflowByName \/ Execute

\* --------------------------------------------------------- specifications
PollerStep == Query \/ Tick \/ LoopExit

NextPoller == Query \/ Tick \/ LoopExit \/ RemoteAdvance

InitPoller ==
    InitPollerVars /\ IdleEvalVars /\ IdleAgentVars /\ IdleIntegVars

InitEval ==
    IdlePollerVars /\ InitEvalVars /\ IdleAgentVars /\ IdleIntegVars

SpecPoller == InitPoller /\ [][NextPoller]_vars

SpecEval == InitEval /\ [][NextEval]_vars

FairSpecPoller == SpecPoller /\ WF_vars(PollerStep)

InitAgent ==
    IdlePollerVars /\ IdleEvalVars /\ InitAgentVars /\ IdleIntegVars

SpecAgent == InitAgent /\ [][NextAgent]_vars

\* Every step of main and of a cycle ends (requests carry a time-out, the
\* poller's loop is bounded, time.sleep(1) returns); signals and the remote
\* service are under no obligation.
FairSpecAgent == SpecAgent /\ WF_vars(AgentStep)

InitInteg ==
    IdlePollerVars /\ IdleEvalVars /\ IdleAgentVars /\ InitIntegVars

SpecInteg == InitInteg /\ [][NextInteg]_vars

\* ---------------------------------------------------------- poller claims

\* C1 (as claimed): when no status query failed and the remote status became
\* terminal strictly before `timeout` had elapsed, the record that
\* wait_for_execution returns carries a terminal status.
C1_TerminalBeforeTimeoutIsReturned ==
    (/\ wpc = "returned"
     /\ ~anyFailed
     /\ terminalAt >= 0
     /\ terminalAt - start_time < timeout)
        => IsTerminal(result.status)

\* C2: with timeout > 0, while the remote status has not become terminal
\* wait_for_execution never raises, and what it returns is the record of its
\* most recent status query, whose status is not terminal.
C2_SoftTimeoutReturnsLastRecord ==
    (timeout > 0 /\ remoteStatus \in NonTerminal)
        => /\ wpc # "raised"
           /\ wpc = "returned"
                => /\ queries >= 1
                   /\ result = execution
                   /\ result.q = queries
                   /\ ~IsTerminal(result.status)

\* C2 witness: a soft timeout after at least two status queries.
C2_Witness ==
    /\ wpc = "returned"
    /\ timeout > 0
    /\ remoteStatus \in NonTerminal
    /\ queries >= 2
    /\ now - start_time >= timeout

\* C3 (as claimed): a wait in which some status query failed does not end by
\* returning a record.
C3_QueryFailurePropagates ==
    wpc = "returned" => ~anyFailed

\* C4: with timeout > 0 the elapsed time never exceeds
\* timeout + poll_interval at any point of the call, and the call returns.
C4_ElapsedBoundAndTermination ==
    /\ [](timeout > 0 => now - start_time <= timeout + poll_interval)
    /\ (timeout > 0 => <>(wpc = "returned"))

\* C4 witness: a return as late as the loop allows, one second short of
\* timeout + poll_interval.
C4_Witness ==
    /\ wpc = "returned"
    /\ timeout > 0
    /\ poll_interval > 1
    /\ now - start_time = timeout + poll_interval - 1

\* ------------------------------------------------------- evaluator claims

\* The signal value of a row as the specification defines it: `score` when
\* the field is present, else `confidence`; no signal when both are absent.
HasSignal(r) == "score" \in DOMAIN r \/ "confidence" \in DOMAIN r

SignalValue(r) == IF "score" \in DOMAIN r THEN r["score"] ELSE r["confidence"]

\* The latest iteration made a notification call.
Notified == slackOutcome # "none" \/ emailOutcome # "none"

\* C5 (as claimed): every iterated row leads to a notification exactly when
\* it has a signal value and that value is >= threshold.
C5_NotifiedIffSignalAtLeastThreshold ==
    idx >= 1 =>
        (Notified <=> (HasSignal(row) /\ SignalValue(row) >= threshold))

\* C6 (as claimed): a row that has a `score` below the threshold does not
\* lead to a notification, even when its `confidence` is at or above the
\* threshold: the score, being present, is the signal value (also when 0).
C6_LowScoreNotOverriddenByConfidence ==
    (/\ idx >= 1
     /\ "score" \in DOMAIN row
     /\ row["score"] < threshold
     /\ "confidence" \in DOMAIN row
     /\ row["confidence"] >= threshold)
        => ~Notified

\* C7 (as claimed): a row with neither `score` nor `confidence` leads to no
\* notification call, whatever the threshold.
C7_RowWithoutSignalNeverNotifies ==
    (idx >= 1 /\ ~HasSignal(row)) => ~Notified

\* C8: when the send of one channel fails for a row, the other channel is
\* still called for that row; and once a send has failed, every later row
\* that passes the evaluator's threshold test still has both channels called.
C8_ChannelIsolation ==
    idx >= 1 =>
        /\ SendFailed(slackOutcome) => emailOutcome # "none"
        /\ SendFailed(emailOutcome) => slackOutcome # "none"
        /\ (failedBefore /\ Triggers(variant, row, threshold))
              => (slackOutcome # "none" /\ emailOutcome # "none")

\* C8 witness: after a failure in an earlier row, a row whose Slack send
\* fails and whose email send is attempted all the same.
C8_Witness ==
    /\ idx >= 2
    /\ failedBefore
    /\ slackOutcome = "failed"
    /\ emailOutcome \in {"sent", "failed"}

\* C9: a row that passes the evaluator's threshold test leads to one
\* notify_slack call and one notify_email call, any other row to none; so
\* each channel's call count equals the number of rows that passed.
C9_OneCallPerChannelPerTriggeringRow ==
    /\ idx >= 1 =>
         IF Triggers(variant, row, threshold)
           THEN slackOutcome # "none" /\ emailOutcome # "none"
           ELSE slackOutcome = "none" /\ emailOutcome = "none"
    /\ nSlackCalls = nTriggered
    /\ nEmailCalls = nTriggered

\* C9 witness: three rows iterated, two of them triggering, the latest not.
C9_Witness ==
    /\ idx = 3
    /\ nTriggered = 2
    /\ nSlackCalls = 2
    /\ ~Triggers(variant, row, threshold)
    /\ failedBefore

C11_CycleFaultContainment ==
    /\ [](apc # "crashed")
    /\ ((InCycle /\ cFailed) ~> Sleeping)
    /\ ((Sleeping /\ cFailed) ~> (STOP \/ apc = "begin"))

\* A cycle of the local script whose save raised is over and the loop sleeps.
C11_Witness ==
    /\ apc = "ticking"
    /\ script = "local"
    /\ cPersist = "failed"
    /\ cFailed
    /\ ~cEvaluated

\* C12: when the stop flag is set while the loop sleeps, at most one more
\* time.sleep(1) ends before main returns, whatever is left of the interval,
\* no cycle runs afterwards, and main does return.
C12_StopDuringSleep ==
    /\ [](stopSetAt = "sleeping" => ticksAfterStop <= 1 /\ ~InCycle)
    /\ ((stopSetAt = "sleeping") ~> (apc = "stopped"))

\* Stopped one tick after a signal that came mid-sleep, interval not used up.
C12_Witness ==
    /\ apc = "stopped"
    /\ stopSetAt = "sleeping"
    /\ ticksAfterStop = 1
    /\ slept < interval

\* C13 as stated: main returns only after the stop flag was seen set.
C13_StopsOnlyAfterFlag ==
    apc \in {"stopped", "aborted"} => STOP

\* C13, amended: main leaves its loop only after the stop flag was seen set;
\* it returns without the flag only from the failed connection test of
\* strategy_agent.py at startup, outside dry-run mode and before any cycle;
\* when neither happens the agent goes on alternating between cycles and
\* the sleep loop.
C13_StopsOnlyAfterFlagOrFailedStartup ==
    /\ [](apc = "stopped" => STOP)
    /\ [](apc = "aborted" =>
            /\ script = "agent"
            /\ ~dry_run
            /\ record = NoRecord
            /\ cTriggers = 0
            /\ cPersist = "no"
            /\ ~cEvaluated)
    /\ []<>(STOP \/ apc = "aborted" \/ InCycle)
    /\ []<>(STOP \/ apc = "aborted" \/ Sleeping)

\* main returned on the flag after a cycle that went through.
C13_Witness ==
    /\ apc = "stopped"
    /\ STOP
    /\ cEvaluated
    /\ stopSetAt = "running"


\* C14: a cycle whose persist step failed still ran the evaluator/notifier
\* before it ended (the loop is back in its sleep phase).
C14_PersistFailureStillEvaluates ==
    (cPersist = "failed" /\ Sleeping) => cEvaluated

\* C15: in a cycle at most one execution is triggered, the poller runs only
\* after the trigger, the persist step only after the poller returned (when
\* the cycle polls at all), the evaluator/notifier only after the persist
\* attempt, and nothing is notified before that attempt.
C15_StepOrder ==
    /\ cTriggers <= 1
    /\ (apc = "poll" \/ cPolled) => cTriggers = 1
    /\ (apc = "persist" \/ cPersist # "no") =>
         (FirstStep(script, dry_run) = "find" => cPolled)
    /\ (apc = "evaluate" \/ cEvaluated) => cPersist # "no"
    /\ cNotified => cPersist # "no"

\* A cycle that triggered, polled, persisted and then notified.
C15_Witness ==
    /\ cTriggers = 1
    /\ cPolled
    /\ cPersist = "ok"
    /\ cEvaluated
    /\ cNotified

\* Executions triggered by this agent that are not terminal at the remote
\* service.
InFlight == (IF curRemote = "running" THEN 1 ELSE 0) + olderInFlight

\* C16: at every moment at most one execution triggered by the agent is
\* non-terminal at the remote service.
C16_AtMostOneInFlight == InFlight <= 1

\* C17 as stated: in dry-run mode no gateway call is made and every cycle
\* works on the same synthetic record.
C17_DryRunSameRecord ==
    (dry_run /\ script = "agent") =>
        /\ ~gatewayCalled
        /\ fakeRel # "differs"
        /\ record \in {NoRecord, FakeExecution}

\* C17, amended: in dry-run mode no gateway call is made, at startup or in
\* a cycle, and every cycle works on a synthetic record with status success
\* and the same fixed rows (its id and timestamps come from the clock).
C17_DryRunIsolation ==
    dry_run =>
        /\ ~gatewayCalled
        /\ curRemote = "none"
        /\ script = "agent" => record \in {NoRecord, FakeExecution}
        /\ (script = "agent" /\ InCycle /\ apc # "begin") =>
              (record.status = "success" /\ record.data = "synthetic")

\* In dry-run mode a second cycle evaluated a record made in a later second.
C17_Witness ==
    /\ dry_run
    /\ script = "agent"
    /\ fakeRel = "differs"
    /\ cEvaluated
    /\ record = FakeExecution

\* C18: the stop flag starts false, only the signal handler changes it, and
\* no step sets it back to false.
C18_StopFlagMonotonic ==
    /\ ~STOP
    /\ [][/\ STOP => STOP'
          /\ STOP' # STOP => HandleSignal]_vars

\* The flag is set and the loop went on to its end with the flag still set.
C18_Witness ==
    /\ STOP
    /\ apc = "stopped"
    /\ stopSetAt = "running"
    /\ cEvaluated

\* C19: no persist call writes to the name of an earlier persist call.
C19_NoOverwrite == ~overwrote

C21_PollingIsReadOnly ==
    /\ \A rq \in issued :
         /\ rq.method = "GET"
         /\ rq.endpoint = "/executions"
         /\ rq.id = execution_id
    /\ client = NewClient

\* The poller returned after several status queries.
C21_Witness ==
    /\ wpc = "returned"
    /\ queries >= 2
    /\ issued # {}

\* C23: a terminal record is returned by the query that observed it: after
\* k sleeps of poll_interval seconds and k+1 queries, at k*poll_interval
\* seconds, and nothing is queried afterwards.
C23_ImmediateReturnOnTerminal ==
    (wpc = "returned" /\ IsTerminal(result.status)) =>
        /\ result.q = queries
        /\ now - start_time = (queries - 1) * poll_interval
        /\ now - start_time < timeout

\* running, running, success with poll_interval 2: returned at 4 seconds.
C23_Witness ==
    /\ wpc = "returned"
    /\ result.status = "success"
    /\ queries = 3
    /\ poll_interval = 2
    /\ now - start_time = 4
    /\ ~anyFailed


\* -------------------------------------------------- run loop, further on
\* C22: when the configured name or id matches no workflow of the list the
\* gateway returned (an empty list included), execute_workflow raises
\* nothing, triggers no execution and polls nothing in that cycle.
C22_NotFoundIsNotAnError ==
    cMatch = "noMatch" =>
        /\ apc # "crashed"
        /\ cTriggers = 0
        /\ cHandle = "none"
        /\ ~cPolled
        /\ record = NoRecord
        /\ ~InCycle

\* A cycle that found no workflow is over and the loop sleeps.
C22_Witness ==
    /\ cMatch = "noMatch"
    /\ apc = "ticking"
    /\ cFailed
    /\ gatewayCalled

\* C24: a cycle of the agent that polled sends a notification only from a
\* record whose status is terminal.
C24_AlertsOnlyFromTerminalRecords ==
    (script = "agent" /\ ~dry_run /\ cNotified) => IsTerminal(record.status)

\* C25: when the stop flag is set during a cycle, the cycle goes on to its
\* end, no time.sleep(1) ends afterwards, main returns; and with the flag
\* set no cycle begins, the first one included.
C25_StopDuringCycleIsCooperative ==
    /\ [](stopSetAt = "running" => ticksAfterStop = 0)
    /\ []((stopSetAt = "running" /\ apc = "stopped" /\ script = "agent"
           /\ cPersist # "no") => cEvaluated)
    /\ [][STOP => ~(apc # "begin" /\ apc' = "begin")]_vars
    /\ ((stopSetAt = "running") ~> (apc = "stopped"))
    /\ ((STOP /\ apc \in {"startup", "loopTest"}) ~>
            (apc \in {"stopped", "aborted"}))

\* The flag came before the persist step of a cycle that then went through,
\* with an interval left unslept.
C25_Witness ==
    /\ apc = "stopped"
    /\ stopSetAt = "running"
    /\ cPersist = "ok"
    /\ cEvaluated
    /\ cNotified
    /\ interval > 0
    /\ slept = 0
    /\ ticksAfterStop = 0

\* C28: the poller is only ever started with an execution id.
C28_PollerGetsAnId ==
    (apc = "poll" \/ cPolled) => cHandle = "id"

\* C30: in a cycle of the agent that polls, while the executor has yielded
\* no execution record (None or {}), nothing was persisted, evaluated or
\* notified, and with {} the cycle is over.
C30_NoRecordEndsCycleEarly ==
    (script = "agent" /\ ~dry_run /\ record.status \in {"none", "empty"}) =>
        /\ cPersist = "no"
        /\ ~cEvaluated
        /\ ~cNotified
        /\ apc \notin {"persist", "bq", "evaluate", "crashed"}
        /\ record.status = "empty" => ~InCycle

\* The poller returned {} and the loop sleeps.
C30_Witness ==
    /\ script = "agent"
    /\ ~dry_run
    /\ record.status = "empty"
    /\ cPolled
    /\ cHandle = "id"
    /\ Sleeping


\* ------------------------------------------------ N8nIntegration properties
\* C26: execute with wait=True, after a trigger that succeeded and returned
\* an id and with no gateway call failing, returns the record of
\* wait_for_execution.
C26_ExecuteReturnsPolledRecord ==
    (/\ lastOp = "execute"
     /\ execCase.triggerOK
     /\ execCase.hasId
     /\ execCase.wait
     /\ execCase.queriesOK) => execReturn = "record"

\* C27: a get_workflows call without refresh that finds a non-empty cached
\* list returns it and sends nothing to the gateway; a call with refresh
\* sends one list request and stores what it got; a call without refresh
\* that finds an empty cached list sends a list request again.
C27_WorkflowCache ==
    lastOp \in {"get_workflows", "find_workflow"} =>
        /\ (~refresh /\ prevCache.set /\ prevCache.wfs # {}) =>
              /\ lastListCalls = 0
              /\ wfReturn = prevCache.wfs
              /\ workflows_cache = prevCache
        /\ refresh =>
              /\ lastListCalls = 1
              /\ workflows_cache = Cached(wfReturn)
        /\ (~refresh /\ prevCache.set /\ prevCache.wfs = {}) =>
              lastListCalls = 1

\* A refresh replaced a cached non-empty list by another non-empty one.
C27_Witness ==
    /\ lastOp = "get_workflows"
    /\ refresh
    /\ prevCache.set
    /\ prevCache.wfs # {}
    /\ wfReturn # {}
    /\ wfReturn # prevCache.wfs

\* C29: a get_workflows call whose list request failed leaves a cached
\* non-empty list as it was.
C29_FailedRefreshKeepsCache ==
    (lastFetch = "failed" /\ prevCache.set /\ prevCache.wfs # {}) =>
        workflows_cache = prevCache

====
